---- MODULE Spec2Model ----
(***************************************************************************)
(* Summit Cards backend (src/server.js): an Express proxy in front of the  *)
(* Pokemon TCG API.  A request passes the cors origin callback, is routed  *)
(* to a handler, and the four /api handlers await pokemonApiRequest, which *)
(* races one fetch against a 30 s abort timer.                             *)
(*                                                                         *)
(* Strings that the code slices or concatenates (URLs, bodies) are         *)
(* sequences of tokens; a token is a character or an atomic piece of text. *)
(* Monotonic time (setTimeout) is counted in units of 10 s; the wall clock *)
(* read by new Date() is counted in milliseconds.                          *)
(***************************************************************************)
EXTENDS Integers, Sequences, FiniteSets, TLC

VARIABLES env, now, wallMs, req

vars == <<env, now, wallMs, req>>

(* ------------------------------ bounds -------------------------------- *)

NReq == 2          \* requests handled concurrently
MaxTime == 4       \* readings of the monotonic clock, 0..MaxTime
MaxWall == 1       \* readings of the wall clock, 0..MaxWall
MaxIdLen == 1      \* tokens in the raw :id segment of an inbound URL
MaxQLen == 1       \* tokens after the '?' of an inbound URL

Reqs == 1..NReq

(* --------------------------- configuration ---------------------------- *)

POKEMON_TCG_API == <<"https://api.pokemontcg.io/v2">>

\* process.env.POKEMON_TCG_API_KEY: undefined, or a string
EnvUnset == "<undefined>"
EnvValues == {EnvUnset, "", "key-1"}

API_KEY == IF env = EnvUnset \/ env = "" THEN "" ELSE env

allowedOrigins ==
  { "https://collection.summitcards.co.uk",
    "https://summitcards.co.uk",
    "https://www.summitcards.co.uk",
    "http://localhost:5173",
    "http://localhost:3000",
    "http://127.0.0.1:5173" }

\* the timer of setTimeout(..., 30000), in units of 10 s
TIMEOUT == 3

(* ------------------------- string primitives -------------------------- *)

\* String.prototype.includes
Includes(s, t) == \E i \in 1..Len(s) : s[i] = t

\* String.prototype.indexOf, 1-based; 0 when absent
IndexOf(s, t) ==
  IF Includes(s, t)
  THEN CHOOSE i \in 1..Len(s) : s[i] = t /\ \A j \in 1..(i - 1) : s[j] # t
  ELSE 0

\* String.prototype.substring(from) with a 1-based index
Substring(s, from) == SubSeq(s, from, Len(s))

\* sequences over alphabet A of length 0..n
RECURSIVE SeqsUpTo(_, _)
SeqsUpTo(A, n) ==
  IF n = 0 THEN {<<>>}
  ELSE LET shorter == SeqsUpTo(A, n - 1)
       IN  shorter \cup {Append(s, a) : s \in shorter, a \in A}

(* ------------------------------ inbound ------------------------------- *)

\* req.headers.origin: undefined when the header is absent
NoOrigin == "<undefined>"

Origins ==
  { NoOrigin, "",
    "https://summitcards.co.uk",
    "https://summitcards.co.uk/",
    "https://evil.example" }

\* mutant: the else branch also calls callback(null, true)
OriginAllowedAll(origin) == TRUE

\* cors origin callback: TRUE for callback(null, true), FALSE for callback(Error)
OriginAllowed(origin) ==
  IF origin = NoOrigin \/ origin = "" THEN TRUE      \* !origin
  ELSE origin \in allowedOrigins

\* decodeURIComponent as Express applies it to a matched route parameter
DecodeToken(t) == IF t = "%3F" THEN "?" ELSE t
DecodeParam(s) == [i \in 1..Len(s) |-> DecodeToken(s[i])]

\* the path Express routes on: req.url without its query string
PathOf(url) ==
  IF Includes(url, "?") THEN SubSeq(url, 1, IndexOf(url, "?") - 1) ELSE url

\* app.get(...) registrations, in order; routing is not strict about a
\* trailing slash, and :id matches one non-empty segment
RouteOf(url) ==
  LET p == PathOf(url)
      rest == SubSeq(p, 3, Len(p))
      isId == Len(p) >= 3 /\ p[2] = "/" /\ ~Includes(rest, "/")
      isColl == Len(p) = 1 \/ (Len(p) = 2 /\ p[2] = "/")
  IN  IF p = <<>> THEN "none"
      ELSE IF p[1] = "/health" /\ isColl THEN "health"
      ELSE IF p[1] = "/api/sets" /\ isColl THEN "sets"
      ELSE IF p[1] = "/api/sets" /\ isId THEN "setById"
      ELSE IF p[1] = "/api/cards" /\ isColl THEN "cards"
      ELSE IF p[1] = "/api/cards" /\ isId THEN "cardById"
      ELSE "none"

\* req.params.id of a by-id route
ParamId(url) == LET p == PathOf(url) IN DecodeParam(SubSeq(p, 3, Len(p)))

ApiRoutes == {"sets", "setById", "cards", "cardById"}

(* --------------------------- route handlers --------------------------- *)

\* req.url.includes('?') ? req.url.substring(req.url.indexOf('?')) : ''
QueryParams(url) ==
  IF Includes(url, "?") THEN Substring(url, IndexOf(url, "?")) ELSE <<>>

\* first argument of pokemonApiRequest in each handler
Endpoint(route, url) ==
  CASE route = "sets" -> <<"/sets">>
    [] route = "setById" -> <<"/sets", "/">> \o ParamId(url)
    [] route = "cards" -> <<"/cards">>
    [] route = "cardById" -> <<"/cards", "/">> \o ParamId(url)

\* second argument of pokemonApiRequest; the by-id handlers pass none and
\* the parameter defaults to ''
HandlerQuery(route, url) ==
  IF route \in {"sets", "cards"} THEN QueryParams(url) ELSE <<>>

\* the fixed label of each handler's 500 body
Label(route) ==
  CASE route = "sets" -> "Failed to fetch sets"
    [] route = "setById" -> "Failed to fetch set"
    [] route = "cards" -> "Failed to fetch cards"
    [] route = "cardById" -> "Failed to fetch card"

\* mutant: res.json(...) without res.status(500)
HandlerCatchNoStatus(route, error) ==
  [status |-> 200, body |-> [error |-> Label(route), message |-> error.message]]

\* res.status(500).json({ error, message: error.message })
HandlerCatch(route, error) ==
  [status |-> 500, body |-> [error |-> Label(route), message |-> error.message]]

\* res.json(data)
HandlerOk(data) == [status |-> 200, body |-> [json |-> data]]

\* new Date().toISOString(): the wall clock at millisecond resolution
ToISOString(ms) == [date |-> "1970-01-01T00:00:00", millis |-> ms, zone |-> "Z"]

\* mutant: the timestamp is taken once, when the process starts
HealthBodyStartTime(ms) == [status |-> "healthy", timestamp |-> ToISOString(0)]

\* res.json({ status: 'healthy', timestamp })
HealthBody(ms) == [status |-> "healthy", timestamp |-> ToISOString(ms)]

\* what Express answers when the cors callback reports an error
CorsRejection == [status |-> 500, body |-> [text |-> "Error: Not allowed by CORS"]]

NoResp == [status |-> 0, body |-> [text |-> ""]]

(* ------------------------- pokemonApiRequest -------------------------- *)

\* `${POKEMON_TCG_API}${endpoint}${queryParams}`
UpstreamUrl(endpoint, queryParams) == POKEMON_TCG_API \o endpoint \o queryParams

\* mutant: X-Api-Key is set without the if (API_KEY) test
HeadersKeyAlways ==
  ("Content-Type" :> "application/json") @@ ("Accept" :> "application/json")
    @@ ("X-Api-Key" :> API_KEY)

\* the headers object, X-Api-Key added under if (API_KEY)
Headers ==
  LET base == ("Content-Type" :> "application/json") @@ ("Accept" :> "application/json")
  IN  IF API_KEY # "" THEN base @@ ("X-Api-Key" :> API_KEY) ELSE base

\* clearTimeout(timeout) after the fetch resolved; a timer that has fired
\* or was cleared is left as it is
ClearAfterFetch(t) == IF t = "armed" THEN "cleared" ELSE t

\* mutant: the catch block does not clear the timer
ClearInCatchForgotten(t) == t

\* clearTimeout(timeout) in the catch block
ClearInCatch(t) == IF t = "armed" THEN "cleared" ELSE t

\* mutant: one AbortController at module level, shared by all calls
AbortTargetsShared(r) == Reqs

\* the requests whose fetch the controller of request r aborts:
\* const controller = new AbortController() is local to each call
AbortTargets(r) == {r}

Msg(text) == [text |-> text, status |-> 0, statusText |-> ""]

\* the rejection of a fetch or body read whose signal was aborted
AbortError == [name |-> "AbortError", message |-> Msg("This operation was aborted")]

\* the rejection of fetch on a network failure
FetchFailed == [name |-> "TypeError", message |-> Msg("fetch failed")]

\* the rejection of response.text() / response.json() when the body stream breaks
BodyFailed == [name |-> "TypeError", message |-> Msg("terminated")]

\* the rejection of response.json() on a body that is not JSON
JsonSyntaxError == [name |-> "SyntaxError", message |-> Msg("Unexpected token in JSON")]

\* new Error(`Pokemon TCG API error: ${response.status} ${response.statusText}`)
UpstreamError(st) ==
  [name |-> "Error",
   message |-> [text |-> "Pokemon TCG API error:", status |-> st.code, statusText |-> st.text]]

TimeoutError ==
  [name |-> "Error",
   message |-> Msg("Request timeout - Pokemon TCG API took too long to respond")]

\* the catch block: what pokemonApiRequest throws for a caught err
Catch(err) == IF err.name = "AbortError" THEN TimeoutError ELSE err

\* response.ok
Ok(st) == st.code >= 200 /\ st.code <= 299

(* ------------------------------ upstream ------------------------------ *)

Statuses ==
  { [code |-> 200, text |-> "OK"],
    [code |-> 404, text |-> "Not Found"],
    [code |-> 429, text |-> "Too Many Requests"] }

NoStatus == [code |-> 0, text |-> ""]

\* body texts the upstream may send
Bodies == { <<"1">>, <<"[", " ", "1", "]">>, <<"[", "1">>, <<>> }

IsSpace(t) == t = " "

\* the text without insignificant whitespace: JSON.stringify(JSON.parse(text))
SkipSpace(text) == SelectSeq(text, LAMBDA t : ~IsSpace(t))

\* the grammar JSON.parse accepts here: value ::= 1 | [ ] | [ value ]
RECURSIVE IsValue(_)
IsValue(s) ==
  \/ s = <<"1">>
  \/ /\ Len(s) >= 2
     /\ s[1] = "["
     /\ s[Len(s)] = "]"
     /\ (Len(s) = 2 \/ IsValue(SubSeq(s, 2, Len(s) - 1)))

JsonParses(text) == IsValue(SkipSpace(text))

\* the parsed value, written as res.json serialises it
JsonParse(text) == SkipSpace(text)

(* ------------------------------- state -------------------------------- *)

\* one inbound request: where its handler stands (pc), what it was sent
\* with, its abort timer and signal, the 30 s mark of its pending call
\* (deadline, 0 when no call is pending), the outbound calls made for it,
\* what the upstream answered on its call, and the response sent to its
\* caller
NewReq ==
  [pc |-> "new", origin |-> NoOrigin, url |-> <<>>, route |-> "none",
   timer |-> "none", deadline |-> 0, aborted |-> FALSE, calls |-> <<>>,
   upStatus |-> NoStatus, upBody |-> <<>>, resp |-> NoResp]

Init ==
  /\ env \in EnvValues
  /\ now = 0
  /\ wallMs = 0
  /\ req = [r \in Reqs |-> NewReq]

\* mutant: the handler calls pokemonApiRequest once more before it answers
FailWithRetry(q, error) ==
  [q EXCEPT !.pc = "done", !.deadline = 0, !.calls = Append(@, @[1]),
            !.resp = HandlerCatch(q.route, error)]

\* the handler's catch block answers the caller of r with what was thrown
Fail(q, error) ==
  [q EXCEPT !.pc = "done", !.deadline = 0, !.resp = HandlerCatch(q.route, error)]

(* ------------------------------ actions ------------------------------- *)

\* the cors callback refuses the origin: no route handler runs
ReceiveDenied(r, url, origin) ==
  /\ req[r].pc = "new"
  /\ ~OriginAllowed(origin)
  /\ req' = [req EXCEPT ![r] =
       [@ EXCEPT !.pc = "denied", !.origin = origin, !.url = url,
                 !.route = RouteOf(url), !.resp = CorsRejection]]
  /\ UNCHANGED <<env, now, wallMs>>

\* app.get('/health')
ReceiveHealth(r, url, origin) ==
  /\ req[r].pc = "new"
  /\ OriginAllowed(origin)
  /\ RouteOf(url) = "health"
  /\ req' = [req EXCEPT ![r] =
       [@ EXCEPT !.pc = "done", !.origin = origin, !.url = url,
                 !.route = "health",
                 !.resp = [status |-> 200, body |-> HealthBody(wallMs)]]]
  /\ UNCHANGED <<env, now, wallMs>>

\* one of the four /api handlers up to its await: pokemonApiRequest builds
\* the URL and headers, arms the timer and issues the fetch
ReceiveApi(r, url, origin) ==
  /\ req[r].pc = "new"
  /\ OriginAllowed(origin)
  /\ RouteOf(url) \in ApiRoutes
  /\ LET route == RouteOf(url)
         call == [url |-> UpstreamUrl(Endpoint(route, url), HandlerQuery(route, url)),
                  headers |-> Headers]
     IN  req' = [req EXCEPT ![r] =
           [@ EXCEPT !.pc = "fetch", !.origin = origin, !.url = url,
                     !.route = route,
                     !.timer = "armed", !.deadline = now + TIMEOUT,
                     !.calls = Append(@, call)]]
  /\ UNCHANGED <<env, now, wallMs>>

\* what an abort of its signal does to a request: a pending fetch or body
\* read rejects with AbortError, the catch block turns it into the timeout
\* error and the handler answers 500
Aborted(q) ==
  IF q.pc \in {"fetch", "text"}
  THEN [Fail(q, Catch(AbortError)) EXCEPT !.aborted = TRUE, !.timer = ClearInCatch(q.timer)]
  ELSE IF q.pc = "json"
  THEN [Fail(q, AbortError) EXCEPT !.aborted = TRUE]
  ELSE [q EXCEPT !.aborted = TRUE]

\* the setTimeout callback: controller.abort()
TimerFires(r) ==
  /\ req[r].timer = "armed"
  /\ now >= req[r].deadline
  /\ req' = [q \in Reqs |->
       LET fired == IF q = r THEN [req[q] EXCEPT !.timer = "fired"] ELSE req[q]
       IN  IF q \in AbortTargets(r) THEN Aborted(fired) ELSE fired]
  /\ UNCHANGED <<env, now, wallMs>>

\* fetch rejects (DNS, connection refused or reset before the headers)
FetchFails(r) ==
  /\ req[r].pc = "fetch"
  /\ req' = [req EXCEPT ![r] =
       [Fail(@, Catch(FetchFailed)) EXCEPT !.timer = ClearInCatch(@)]]
  /\ UNCHANGED <<env, now, wallMs>>

\* fetch resolves with the response head: the timer is cleared, then a
\* non-ok response awaits response.text() and an ok one returns
\* response.json(), which the handler awaits
FetchResolves(r, st) ==
  /\ req[r].pc = "fetch"
  /\ req' = [req EXCEPT ![r] =
       [@ EXCEPT !.pc = IF Ok(st) THEN "json" ELSE "text",
                 !.upStatus = st,
                 !.timer = ClearAfterFetch(@)]]
  /\ UNCHANGED <<env, now, wallMs>>

\* response.text() resolves: the text is logged, the error is thrown,
\* caught and rethrown
TextResolves(r, body) ==
  /\ req[r].pc = "text"
  /\ body \in Bodies
  /\ req' = [req EXCEPT ![r] =
       [Fail(@, Catch(UpstreamError(@.upStatus))) EXCEPT !.timer = ClearInCatch(@)]]
  /\ UNCHANGED <<env, now, wallMs>>

\* response.text() rejects: the body of the error response cannot be read
TextFails(r) ==
  /\ req[r].pc = "text"
  /\ req' = [req EXCEPT ![r] =
       [Fail(@, Catch(BodyFailed)) EXCEPT !.timer = ClearInCatch(@)]]
  /\ UNCHANGED <<env, now, wallMs>>

\* response.json() settles on a complete body; its rejection passes the
\* catch block by (the promise is returned, not awaited) and reaches the
\* handler
JsonResolves(r, body) ==
  /\ req[r].pc = "json"
  /\ req' = [req EXCEPT ![r] =
       IF JsonParses(body)
       THEN [@ EXCEPT !.pc = "done", !.deadline = 0, !.upBody = body,
                      !.resp = HandlerOk(JsonParse(body))]
       ELSE [Fail(@, JsonSyntaxError) EXCEPT !.upBody = body]]
  /\ UNCHANGED <<env, now, wallMs>>

\* response.json() rejects: the body stream breaks
JsonFails(r) ==
  /\ req[r].pc = "json"
  /\ req' = [req EXCEPT ![r] = Fail(@, BodyFailed)]
  /\ UNCHANGED <<env, now, wallMs>>

\* monotonic time passes; a timer that is due runs before time moves on
Tick ==
  /\ now < MaxTime
  /\ \A r \in Reqs : ~(req[r].timer = "armed" /\ now >= req[r].deadline)
  /\ now' = now + 1
  /\ UNCHANGED <<env, wallMs, req>>

\* the wall clock reaches its next millisecond
WallTick ==
  /\ wallMs < MaxWall
  /\ wallMs' = wallMs + 1
  /\ UNCHANGED <<env, now, req>>

(* --------------------------- specifications --------------------------- *)

IdAlphabet == {"b", "%3F"}
QueryAlphabet == {"q", "?"}

RawIds == SeqsUpTo(IdAlphabet, MaxIdLen)
Queries == {<<>>} \cup {<<"?">> \o s : s \in SeqsUpTo(QueryAlphabet, MaxQLen)}

\* inbound URLs: a route prefix, for /api an optional "/" and id segment,
\* and an optional query string
Urls ==
  {<<p>> \o q : p \in {"/api/sets", "/api/cards", "/health"}, q \in Queries}
  \cup {<<p, "/">> \o id \o q :
          p \in {"/api/sets", "/api/cards"}, id \in RawIds, q \in Queries}

\* the steps of the requests in R, sent with URLs in U and origins in O,
\* the upstream answering with statuses in S and bodies in B
Steps(R, U, O, S, B) ==
  \E r \in R :
    \/ \E url \in U, origin \in O : ReceiveDenied(r, url, origin)
    \/ \E url \in U, origin \in O : ReceiveHealth(r, url, origin)
    \/ \E url \in U, origin \in O : ReceiveApi(r, url, origin)
    \/ TimerFires(r)
    \/ FetchFails(r)
    \/ \E st \in S : FetchResolves(r, st)
    \/ \E body \in B : TextResolves(r, body)
    \/ TextFails(r)
    \/ \E body \in B : JsonResolves(r, body)
    \/ JsonFails(r)

\* one request, every URL and origin
Next == Steps({1}, Urls, Origins, Statuses, Bodies) \/ Tick

Spec == Init /\ [][Next]_vars

ConcUrls == { <<"/api/cards", "?", "q">>, <<"/health">> }
ConcStatuses == {st \in Statuses : st.code \in {200, 404}}
ConcBodies == { <<"1">>, <<"[", "1">> }
ConcOrigins == {NoOrigin, "https://evil.example"}

\* all requests in flight together, a few URLs and origins
NextConc == Steps(Reqs, ConcUrls, ConcOrigins, ConcStatuses, ConcBodies) \/ Tick \/ WallTick

SpecConc == Init /\ [][NextConc]_vars

(* ------------------------------- claims ------------------------------- *)

InFlight(r) == req[r].pc \in {"fetch", "text", "json"}
Answered(r) == req[r].pc = "done"
IsApi(r) == req[r].route \in ApiRoutes
IsHealth(r) == req[r].route = "health"
Failed(r) == Answered(r) /\ IsApi(r) /\ req[r].resp.status = 500
TimedOut(r) == Failed(r) /\ req[r].resp.body.message = TimeoutError.message

\* C1: an admitted /api request is answered by the time its 30 s mark has
\* passed, whatever the upstream does: no request is still in flight once
\* the clock is beyond the deadline of its call.
C1_AnsweredAfterDeadline ==
  \A r \in Reqs : InFlight(r) => now <= req[r].deadline

\* C2: once the fetch of a request has produced a response or an error
\* (it reads the body, or it has been answered) its deadline timer is no
\* longer armed, and a timer that was cleared stays cleared and never
\* aborts the call.
C2_TimerDisarmed ==
  /\ [](\A r \in Reqs :
          (IsApi(r) /\ req[r].pc \in {"text", "json", "done"})
            => /\ req[r].timer \in {"cleared", "fired"}
               /\ (req[r].aborted <=> req[r].timer = "fired"))
  /\ [][\A r \in Reqs :
          req[r].timer = "cleared"
            => req'[r].timer = "cleared" /\ ~req'[r].aborted]_vars

\* C2 witness: a transport failure was answered and the timer is cleared
C2_Witness ==
  \E r \in Reqs :
    /\ Failed(r)
    /\ req[r].resp.body.message = FetchFailed.message
    /\ req[r].timer = "cleared"

\* C3: an admitted /api request has issued exactly one upstream call from
\* the moment its handler awaits until after it is answered, whatever the
\* outcome; a request not yet received or denied has issued none.
C3_ExactlyOneCall ==
  \A r \in Reqs :
    /\ (IsApi(r) /\ (InFlight(r) \/ Answered(r))) => Len(req[r].calls) = 1
    /\ req[r].pc \in {"new", "denied"} => Len(req[r].calls) = 0

\* C3 witness: a request failed on a non-2xx upstream status with one call
C3_Witness ==
  \E r \in Reqs :
    /\ Failed(r)
    /\ req[r].upStatus.code = 404
    /\ Len(req[r].calls) = 1

FailureDetails(r) ==
  { TimeoutError.message, FetchFailed.message, BodyFailed.message,
    JsonSyntaxError.message, UpstreamError(req[r].upStatus).message }

\* C4: an answered /api request got 200 or 500; a 500 body is exactly
\* { error: the label of its route, message: the detail of the failure };
\* a 200 is sent only after a success status and a body that parses, and
\* carries the parsed upstream JSON.
C4_FailureShape ==
  \A r \in Reqs :
    (Answered(r) /\ IsApi(r)) =>
      LET resp == req[r].resp
      IN  /\ resp.status \in {200, 500}
          /\ resp.status = 500 =>
               /\ DOMAIN resp.body = {"error", "message"}
               /\ resp.body.error = Label(req[r].route)
               /\ resp.body.message \in FailureDetails(r)
          /\ resp.status = 200 =>
               /\ Ok(req[r].upStatus)
               /\ ~req[r].aborted
               /\ JsonParses(req[r].upBody)
               /\ resp.body = [json |-> SkipSpace(req[r].upBody)]

\* C4 witness: a success status with a body that is not JSON was answered 500
C4_Witness ==
  \E r \in Reqs :
    /\ Failed(r)
    /\ Ok(req[r].upStatus)
    /\ ~JsonParses(req[r].upBody)
    /\ req[r].resp.body.message = JsonSyntaxError.message

\* C5: a request whose upstream answered a non-success status S is
\* answered 500 with the message naming S and its reason phrase, whether
\* or not the body of the error response could be read.
C5_UpstreamStatusReported ==
  \A r \in Reqs :
    (Answered(r) /\ IsApi(r) /\ req[r].upStatus # NoStatus /\ ~Ok(req[r].upStatus))
      => /\ req[r].resp.status = 500
         /\ req[r].resp.body.message = UpstreamError(req[r].upStatus).message

Received(r) == req[r].pc # "new"
Denied(r) == req[r].pc = "denied"

\* what a denied request leaves behind: no outbound call, no payload
NothingForwarded(r) ==
  /\ req[r].calls = <<>>
  /\ req[r].upStatus = NoStatus
  /\ req[r].resp = CorsRejection

\* C6 as stated: a request is admitted exactly when it has no Origin
\* header or its Origin equals an allow-list entry; any other Origin value
\* is denied, with no upstream call and no upstream payload.
C6_OriginGateAsStated ==
  \A r \in Reqs :
    Received(r) =>
      /\ ~Denied(r) <=> (req[r].origin = NoOrigin \/ req[r].origin \in allowedOrigins)
      /\ Denied(r) => NothingForwarded(r)

\* C6 amended: a request is admitted exactly when it has no Origin header,
\* an empty Origin header, or an Origin equal to an allow-list entry; any
\* other Origin value is denied, with no upstream call and no upstream
\* payload.
C6_OriginGate ==
  \A r \in Reqs :
    Received(r) =>
      /\ ~Denied(r) <=> \/ req[r].origin = NoOrigin
                        \/ req[r].origin = ""
                        \/ req[r].origin \in allowedOrigins
      /\ Denied(r) => NothingForwarded(r)

\* C6 witness: an /api request whose Origin differs from an allow-list
\* entry by a trailing slash was denied
C6_Witness ==
  \E r \in Reqs :
    /\ Denied(r)
    /\ IsApi(r)
    /\ req[r].origin = "https://summitcards.co.uk/"
    /\ req[r].calls = <<>>

\* the part of an inbound URL from its first '?' onward
RECURSIVE FromFirstQuestionMark(_)
FromFirstQuestionMark(u) ==
  IF u = <<>> THEN <<>>
  ELSE IF Head(u) = "?" THEN u
  ELSE FromFirstQuestionMark(Tail(u))

\* C7: the upstream URL of a collection route is base + path + the inbound
\* query string from its first '?' onward, unchanged; the upstream URL of
\* a by-id route is base + path + "/" + id and carries no query string,
\* for every id.
C7_UpstreamUrl ==
  \A r \in Reqs :
    req[r].calls # <<>> =>
      LET u == req[r].calls[1].url
          route == req[r].route
          coll == IF route = "sets" THEN <<"/sets">> ELSE <<"/cards">>
          byId == IF route = "setById" THEN <<"/sets", "/">> ELSE <<"/cards", "/">>
      IN  /\ route \in {"sets", "cards"} =>
               u = POKEMON_TCG_API \o coll \o FromFirstQuestionMark(req[r].url)
          /\ route \in {"setById", "cardById"} =>
               /\ u = POKEMON_TCG_API \o byId \o ParamId(req[r].url)
               /\ ~Includes(u, "?")

\* C8: an outbound call carries X-Api-Key exactly when
\* POKEMON_TCG_API_KEY was given a key at startup, with that key as its
\* value; Content-Type and Accept are application/json either way.
C8_ApiKeyHeader ==
  \A r \in Reqs :
    \A i \in 1..Len(req[r].calls) :
      LET h == req[r].calls[i].headers
      IN  /\ "X-Api-Key" \in DOMAIN h <=> env \notin {EnvUnset, ""}
          /\ "X-Api-Key" \in DOMAIN h => h["X-Api-Key"] = env
          /\ h["Content-Type"] = "application/json"
          /\ h["Accept"] = "application/json"

\* C8 witness: with no key configured a call went out without X-Api-Key
\* and the request was answered 200
C8_Witness ==
  \E r \in Reqs :
    /\ env = EnvUnset
    /\ Answered(r) /\ IsApi(r)
    /\ req[r].resp.status = 200
    /\ "X-Api-Key" \notin DOMAIN req[r].calls[1].headers

HealthOk(r) ==
  /\ req[r].resp.status = 200
  /\ DOMAIN req[r].resp.body = {"status", "timestamp"}
  /\ req[r].resp.body.status = "healthy"
  /\ req[r].calls = <<>>

\* C9 as stated: every request to /health, whatever its Origin header, is
\* answered 200 { status: "healthy", timestamp } without an upstream call,
\* and two such requests carry distinct timestamps.
C9_HealthAsStated ==
  \A r \in Reqs :
    (Received(r) /\ IsHealth(r)) =>
      /\ HealthOk(r)
      /\ \A q \in Reqs \ {r} :
           (Received(q) /\ IsHealth(q) /\ HealthOk(q))
             => req[q].resp.body.timestamp # req[r].resp.body.timestamp

\* C9 amended: every request to /health that the Origin Gate admits is
\* answered 200 { status: "healthy", timestamp } without an upstream call
\* (one the gate denies is rejected like any other); the timestamp is the
\* wall clock's millisecond reading when the request is handled, so two
\* requests carry distinct timestamps exactly when the clock reading
\* changed between them.
C9_Health ==
  /\ [](\A r \in Reqs :
          (Received(r) /\ IsHealth(r)) =>
            IF OriginAllowed(req[r].origin)
            THEN HealthOk(r) /\ req[r].resp.body.timestamp.millis <= wallMs
            ELSE Denied(r) /\ NothingForwarded(r))
  /\ [][\A r \in Reqs :
          (req[r].pc = "new" /\ req'[r].pc = "done" /\ req'[r].route = "health")
            => req'[r].resp.body.timestamp = ToISOString(wallMs)]_vars

\* C9 witness: two /health requests were answered at different clock
\* readings and carry different timestamps
C9_Witness ==
  \E r, q \in Reqs :
    /\ r # q
    /\ Answered(r) /\ IsHealth(r) /\ HealthOk(r)
    /\ Answered(q) /\ IsHealth(q) /\ HealthOk(q)
    /\ req[r].resp.body.timestamp # req[q].resp.body.timestamp

\* C10: with requests in flight together, a request is answered with a
\* timeout only if its own timer fired and aborted its own call, a 200
\* carries the JSON of its own upstream body and an upstream error names
\* its own upstream status; the step in which the timer of one request
\* fires leaves every other request as it was.
C10_Independent ==
  /\ [](\A r \in Reqs :
          (Answered(r) /\ IsApi(r)) =>
            /\ req[r].aborted <=> req[r].timer = "fired"
            /\ TimedOut(r) <=> req[r].aborted
            /\ req[r].resp.status = 200
                 => req[r].resp.body = [json |-> JsonParse(req[r].upBody)]
            /\ (Failed(r) /\ req[r].resp.body.message.status # 0)
                 => req[r].resp.body.message = UpstreamError(req[r].upStatus).message)
  /\ [][\A r \in Reqs :
          (req[r].timer = "armed" /\ req'[r].timer = "fired")
            => \A q \in Reqs \ {r} : req'[q] = req[q]]_vars

\* C10 witness: one request was answered with a timeout while another,
\* issued later, is still waiting for its fetch with its timer armed
C10_Witness ==
  \E r, q \in Reqs :
    /\ r # q
    /\ TimedOut(r)
    /\ req[q].pc = "fetch"
    /\ req[q].timer = "armed"
    /\ ~req[q].aborted

====
